---- MODULE Spec2Model ----
(***************************************************************************)
(* Model of extract_logs.py: extraction of the records of one calendar     *)
(* date from a newline-delimited log file by planning byte-range chunks    *)
(* and scanning them in a process pool.                                    *)
(*                                                                         *)
(* Text is modelled at the character level: a str or bytes value is a      *)
(* sequence of one-character strings.  The model's files are ASCII, for    *)
(* which bytes.decode('utf-8', errors='ignore') maps every byte to the     *)
(* character of the same code, so a byte offset is a character offset.     *)
(***************************************************************************)
EXTENDS Integers, Sequences, FiniteSets, TLC

(***************************************************************************)
(* Bounds of the model.                                                    *)
(***************************************************************************)
\* A file holds at most MaxLines lines.
MaxLines == 3
\* Pool size: max(1, mp.cpu_count() - 1) is a property of the machine.
NumProcesses == 2
\* Input lines of the normalizer specification are built from at most
\* MaxPieces pieces.
MaxPieces == 5

(***************************************************************************)
(* Program constants, scaled down to the size of the model's files (the    *)
(* source's values are 100 MiB, 100000 bytes and 100 lines): a file of a   *)
(* few short lines then spans several chunks and can be longer than the    *)
(* tail window, as a multi-gigabyte file is under the source's values.     *)
(***************************************************************************)
ChunkSize == 13
TailBytes == 40
TailLines == 2

(***************************************************************************)
(* Characters and small helpers.                                           *)
(***************************************************************************)
Digit == {"0", "1", "2", "3", "4", "5", "6", "7", "8", "9"}

DigitVal(c) ==
    CASE c = "0" -> 0 [] c = "1" -> 1 [] c = "2" -> 2 [] c = "3" -> 3
      [] c = "4" -> 4 [] c = "5" -> 5 [] c = "6" -> 6 [] c = "7" -> 7
      [] c = "8" -> 8 [] c = "9" -> 9

\* The characters str.strip() removes, among those of the model.
Whitespace == {" ", "\n", "\t", "\r"}

Min(a, b) == IF a <= b THEN a ELSE b
Max(a, b) == IF a >= b THEN a ELSE b

\* The literal separators and markers of the source.
NL == "\n"
SepStr == <<" ", "-", " ">>
FracStr == <<".", "0", "0", "0", "0">>

\* Whether pat occurs in s at 1-based index k.
OccursAt(s, pat, k) ==
    /\ k >= 1
    /\ k + Len(pat) - 1 <= Len(s)
    /\ SubSeq(s, k, k + Len(pat) - 1) = pat

\* str.find: the least 1-based index >= from at which pat occurs in s, or 0.
RECURSIVE Find(_, _, _)
Find(s, pat, from) ==
    IF from + Len(pat) - 1 > Len(s)
    THEN 0
    ELSE IF OccursAt(s, pat, from) THEN from ELSE Find(s, pat, from + 1)

\* pat in s
Contains(s, pat) == Find(s, pat, 1) # 0

\* str.strip()
RECURSIVE LStrip(_)
LStrip(s) ==
    IF s # <<>> /\ Head(s) \in Whitespace THEN LStrip(Tail(s)) ELSE s

RECURSIVE RStrip(_)
RStrip(s) ==
    IF s # <<>> /\ s[Len(s)] \in Whitespace
    THEN RStrip(SubSeq(s, 1, Len(s) - 1))
    ELSE s

Strip(s) == RStrip(LStrip(s))

\* str.replace(old, new): every non-overlapping occurrence, left to right.
RECURSIVE Replace(_, _, _)
Replace(s, old, new) ==
    LET k == Find(s, old, 1)
    IN  IF k = 0
        THEN s
        ELSE SubSeq(s, 1, k - 1) \o new
                 \o Replace(SubSeq(s, k + Len(old), Len(s)), old, new)

(***************************************************************************)
(* extract_date_from_line                                                  *)
(***************************************************************************)
NoDate == <<"0", "0", "0", "0", "-", "0", "0", "-", "0", "0">>
NoLastDate == <<"9", "9", "9", "9", "-", "9", "9", "-", "9", "9">>

extract_date_from_line(line) ==
    IF line = <<>>
    THEN NoDate
    ELSE IF Len(line) >= 10 /\ line[5] = "-" /\ line[8] = "-"
         THEN IF Contains(SubSeq(line, 1, Min(19, Len(line))), <<"T">>)
              THEN SubSeq(line, 1, Find(line, <<"T">>, 1) - 1)
              ELSE SubSeq(line, 1, 10)
         ELSE NoDate

(***************************************************************************)
(* format_line_for_output                                                  *)
(***************************************************************************)
\* line.split(' - ', 2): at most three parts, cut at the first two
\* non-overlapping occurrences of the separator.
SplitSep2(line) ==
    LET k1 == Find(line, SepStr, 1)
    IN  IF k1 = 0
        THEN <<line>>
        ELSE LET k2 == Find(line, SepStr, k1 + 3)
             IN  IF k2 = 0
                 THEN <<SubSeq(line, 1, k1 - 1), SubSeq(line, k1 + 3, Len(line))>>
                 ELSE <<SubSeq(line, 1, k1 - 1),
                        SubSeq(line, k1 + 3, k2 - 1),
                        SubSeq(line, k2 + 3, Len(line))>>

\* A plausible slip: the 'T' in line guard is left out.
format_line_no_T_guard(line) ==
    LET parts == SplitSep2(line)
    IN  IF Len(parts) >= 3
        THEN Replace(Replace(parts[1], <<"T">>, <<" ">>), FracStr, <<>>)
                 \o <<" ">> \o parts[2] \o <<" ">> \o parts[3]
        ELSE line

format_line_for_output(line) ==
    IF Contains(line, <<"T">>)
    THEN LET parts == SplitSep2(line)
         IN  IF Len(parts) >= 3
             THEN LET timestamp == Replace(parts[1], <<"T">>, <<" ">>)
                      stripped == IF Contains(timestamp, FracStr)
                                  THEN Replace(timestamp, FracStr, <<>>)
                                  ELSE timestamp
                  IN  stripped \o <<" ">> \o parts[2] \o <<" ">> \o parts[3]
             ELSE line
    ELSE line

(***************************************************************************)
(* datetime.datetime.strptime(s, '%Y-%m-%d') and date arithmetic           *)
(***************************************************************************)
\* %m accepts 1[0-2] | 0[1-9] | [1-9]
MonthStr(s) ==
    \/ Len(s) = 2 /\ s[1] = "1" /\ s[2] \in {"0", "1", "2"}
    \/ Len(s) = 2 /\ s[1] = "0" /\ s[2] \in Digit \ {"0"}
    \/ Len(s) = 1 /\ s[1] \in Digit \ {"0"}

\* %d accepts 3[01] | [12]\d | 0[1-9] | [1-9] | ' '[1-9]
DayStr(s) ==
    \/ Len(s) = 2 /\ s[1] = "3" /\ s[2] \in {"0", "1"}
    \/ Len(s) = 2 /\ s[1] \in {"1", "2"} /\ s[2] \in Digit
    \/ Len(s) = 2 /\ s[1] \in {"0", " "} /\ s[2] \in Digit \ {"0"}
    \/ Len(s) = 1 /\ s[1] \in Digit \ {"0"}

RECURSIVE NumVal(_)
NumVal(s) ==
    IF s = <<>>
    THEN 0
    ELSE 10 * NumVal(SubSeq(s, 1, Len(s) - 1))
           + (IF s[Len(s)] = " " THEN 0 ELSE DigitVal(s[Len(s)]))

IsLeap(y) == (y % 4 = 0) /\ ((y % 100 # 0) \/ (y % 400 = 0))

DaysInMonth(y, m) ==
    IF m = 2 THEN (IF IsLeap(y) THEN 29 ELSE 28)
    ELSE IF m \in {4, 6, 9, 11} THEN 30 ELSE 31

RECURSIVE DaysBeforeMonth(_, _)
DaysBeforeMonth(y, m) ==
    IF m = 1 THEN 0 ELSE DaysBeforeMonth(y, m - 1) + DaysInMonth(y, m - 1)

\* The split of s into year, month and day that the format's pattern
\* matches, as <<y, m, d>>; <<>> when the pattern does not match.
DateFields(s) ==
    IF /\ Len(s) >= 8
       /\ \A k \in 1..4 : s[k] \in Digit
       /\ s[5] = "-"
    THEN LET fits == {i \in {1, 2} :
                         /\ 6 + i <= Len(s)
                         /\ s[6 + i] = "-"
                         /\ MonthStr(SubSeq(s, 6, 5 + i))
                         /\ DayStr(SubSeq(s, 7 + i, Len(s)))}
         IN  IF fits = {}
             THEN <<>>
             ELSE LET i == CHOOSE j \in fits : TRUE
                  IN  <<NumVal(SubSeq(s, 1, 4)),
                        NumVal(SubSeq(s, 6, 5 + i)),
                        NumVal(SubSeq(s, 7 + i, Len(s)))>>
    ELSE <<>>

\* strptime succeeds: the pattern matches and the fields are a date of the
\* calendar (datetime rejects year 0 and a day past the month's end).
ParsesAsDate(s) ==
    LET f == DateFields(s)
    IN  /\ f # <<>>
        /\ f[1] >= 1
        /\ f[3] >= 1
        /\ f[3] <= DaysInMonth(f[1], f[2])

\* date.toordinal() of a string that parses.
Ordinal(s) ==
    LET f == DateFields(s)
        y == f[1] - 1
    IN  365 * y + (y \div 4) - (y \div 100) + (y \div 400)
          + DaysBeforeMonth(f[1], f[2]) + f[3]

validate_date(date_str) == ParsesAsDate(date_str)

\* int(x) of the quotient n / d: truncation toward zero.
TruncDiv(n, d) ==
    LET an == IF n < 0 THEN -n ELSE n
        ad == IF d < 0 THEN -d ELSE d
        q == an \div ad
    IN  IF (n < 0) = (d < 0) THEN q ELSE -q

(***************************************************************************)
(* estimate_position                                                       *)
(***************************************************************************)
estimate_position(fsize, target, min_date, max_date) ==
    IF ~(ParsesAsDate(target) /\ ParsesAsDate(min_date) /\ ParsesAsDate(max_date))
    THEN 0
    ELSE LET total_days == Ordinal(max_date) - Ordinal(min_date)
             target_days == Ordinal(target) - Ordinal(min_date)
         IN  IF total_days = 0
             THEN 0
             ELSE TruncDiv(fsize * target_days, total_days)

(***************************************************************************)
(* The file: bytes, offsets and readline                                   *)
(***************************************************************************)
\* readline() of a file or mmap object positioned at 0-based offset pos:
\* the bytes up to and including the next newline, or up to the end of the
\* data; nothing at or past the end (the position then stays where it is).
ReadLine(bytes, pos) ==
    IF pos >= Len(bytes)
    THEN <<>>
    ELSE LET nl == Find(bytes, <<NL>>, pos + 1)
         IN  SubSeq(bytes, pos + 1, IF nl = 0 THEN Len(bytes) ELSE nl)

\* tell() after that readline().
TellAfterReadLine(bytes, pos) == pos + Len(ReadLine(bytes, pos))

(***************************************************************************)
(* find_date_boundaries                                                    *)
(***************************************************************************)
\* The for loop over range(100): n lines left to read, from offset pos.
RECURSIVE TailScan(_, _, _, _)
TailScan(mm, pos, n, last) ==
    IF n = 0
    THEN last
    ELSE LET line == Strip(ReadLine(mm, pos))
             date == extract_date_from_line(line)
         IN  IF line = <<>>
             THEN last
             ELSE TailScan(mm, TellAfterReadLine(mm, pos), n - 1,
                           IF date # <<>> THEN date ELSE last)

find_date_boundaries(mm, fsize) ==
    LET first_line == Strip(ReadLine(mm, 0))
        pos == Max(0, fsize - TailBytes)
    IN  <<extract_date_from_line(first_line),
          TailScan(mm, TellAfterReadLine(mm, pos), TailLines, NoLastDate)>>

(***************************************************************************)
(* The chunk planner of process_file                                       *)
(***************************************************************************)
\* while start < limit: end = min(start + chunk_size, limit); append; start = end
RECURSIVE Cover(_, _)
Cover(start, limit) ==
    IF start < limit
    THEN LET end == Min(start + ChunkSize, limit)
         IN  <<<<start, end>>>> \o Cover(end, limit)
    ELSE <<>>

PlanChunks(fsize, est) ==
    LET primary_chunk_size == Min(ChunkSize * 2, fsize \div 2)
        primary_start == Max(0, est - (primary_chunk_size \div 2))
        primary_end == Min(fsize, primary_start + primary_chunk_size)
    IN  <<<<primary_start, primary_end>>>>
            \o Cover(0, primary_start)
            \o Cover(primary_end, fsize)

(***************************************************************************)
(* Inputs                                                                  *)
(***************************************************************************)
Date1 == <<"2", "0", "2", "4", "-", "0", "1", "-", "0", "1">>
Date2 == <<"2", "0", "2", "4", "-", "0", "1", "-", "0", "2">>
Date3 == <<"2", "0", "2", "4", "-", "0", "1", "-", "0", "3">>

\* 2024-01-01T1
LineA == Date1 \o <<"T", "1">>
\* 2024-01-02T0.0000 - I - m
LineB == Date2 \o <<"T", "0">> \o FracStr \o SepStr \o <<"I">> \o SepStr \o <<"m">>
\* 2024-01-03T1 and 2024-01-03T2: two records of one day
LineC == Date3 \o <<"T", "1">>
LineD == Date3 \o <<"T", "2">>
\* a line without a timestamp, and a blank line
LineM == <<"o", "o", "p", "s">>
LineE == <<>>

Catalogue == {LineA, LineB, LineC, LineD, LineM, LineE}
Targets == {Date1, Date2, Date3}

RECURSIVE LineSeqs(_)
LineSeqs(n) ==
    IF n = 0
    THEN {<<>>}
    ELSE LET prev == LineSeqs(n - 1)
         IN  prev \cup {Append(ls, l) : ls \in prev, l \in Catalogue}

\* The bytes of a file of newline-terminated lines.
RECURSIVE FileBytes(_)
FileBytes(ls) ==
    IF ls = <<>> THEN <<>> ELSE Head(ls) \o <<NL>> \o FileBytes(Tail(ls))

Pieces == {<<"T">>, SepStr, FracStr, <<"a">>}

RECURSIVE Concats(_)
Concats(n) ==
    IF n = 0
    THEN {<<>>}
    ELSE LET prev == Concats(n - 1)
         IN  prev \cup {p \o q : p \in prev, q \in Pieces}

(***************************************************************************)
(* State                                                                   *)
(***************************************************************************)
VARIABLES
    file,           \* the bytes of the log file (immutable during a run)
    target_date,    \* the validated command-line argument
    pc,             \* position of process_file
    file_size, first_date, last_date, estimated_pos, chunks,
    scan,           \* per task of the pool: position in find_lines_for_date,
                    \* current_pos and results
    chunk_results,  \* the list pool.starmap builds, one slot per chunk
    out_of_order,   \* history: some task returned before an earlier one
    output_exists, output, count, returned,
    norm_pc, norm_line, norm_once, norm_twice   \* normalizer specification

pipeline_vars ==
    <<file, target_date, pc, file_size, first_date, last_date, estimated_pos,
      chunks, scan, chunk_results, out_of_order, output_exists, output, count,
      returned>>
norm_vars == <<norm_pc, norm_line, norm_once, norm_twice>>
vars == <<pipeline_vars, norm_vars>>

Tasks == 1..Len(chunks)
Running == {i \in Tasks : scan[i].pc \in {"while", "body"}}

Init ==
    /\ file \in {FileBytes(ls) : ls \in LineSeqs(MaxLines)}
    /\ target_date \in {t \in Targets : validate_date(t)}
    /\ pc = "start"
    /\ file_size = 0
    /\ first_date = <<>>
    /\ last_date = <<>>
    /\ estimated_pos = 0
    /\ chunks = <<>>
    /\ scan = <<>>
    /\ chunk_results = <<>>
    /\ out_of_order = FALSE
    /\ output_exists = FALSE
    /\ output = <<>>
    /\ count = 0
    /\ returned = "running"
    /\ norm_pc = "off"
    /\ norm_line = <<>>
    /\ norm_once = <<>>
    /\ norm_twice = <<>>

(***************************************************************************)
(* process_file: the planning phase                                        *)
(***************************************************************************)
\* os.path.getsize, open and mmap.mmap of a non-empty file.
OpenAndMap ==
    /\ pc = "start"
    /\ Len(file) > 0
    /\ file_size' = Len(file)
    /\ pc' = "boundaries"
    /\ UNCHANGED <<file, target_date, first_date, last_date, estimated_pos,
                   chunks, scan, chunk_results, out_of_order, output_exists,
                   output, count, returned, norm_vars>>

\* mmap.mmap(fileno, 0) of an empty file raises ValueError ("cannot mmap an
\* empty file"); the except clause of process_file prints it and returns
\* False.
MmapFails ==
    /\ pc = "start"
    /\ Len(file) = 0
    /\ file_size' = Len(file)
    /\ pc' = "failed"
    /\ returned' = "False"
    /\ UNCHANGED <<file, target_date, first_date, last_date, estimated_pos,
                   chunks, scan, chunk_results, out_of_order, output_exists,
                   output, count, norm_vars>>

FindBoundaries ==
    /\ pc = "boundaries"
    /\ first_date' = find_date_boundaries(file, file_size)[1]
    /\ last_date' = find_date_boundaries(file, file_size)[2]
    /\ pc' = "estimate"
    /\ UNCHANGED <<file, target_date, file_size, estimated_pos, chunks, scan,
                   chunk_results, out_of_order, output_exists, output, count,
                   returned, norm_vars>>

Estimate ==
    /\ pc = "estimate"
    /\ estimated_pos' =
           estimate_position(file_size, target_date, first_date, last_date)
    /\ pc' = "plan"
    /\ UNCHANGED <<file, target_date, file_size, first_date, last_date, chunks,
                   scan, chunk_results, out_of_order, output_exists, output,
                   count, returned, norm_vars>>

\* The chunk list, then pool.starmap submits one task per chunk.
Plan ==
    /\ pc = "plan"
    /\ chunks' = PlanChunks(file_size, estimated_pos)
    /\ scan' = [i \in 1..Len(chunks') |->
                   [pc |-> "queued", current_pos |-> 0, results |-> <<>>]]
    /\ chunk_results' = [i \in 1..Len(chunks') |->
                            [ready |-> FALSE, lines |-> <<>>]]
    /\ pc' = "pool"
    /\ UNCHANGED <<file, target_date, file_size, first_date, last_date,
                   estimated_pos, out_of_order, output_exists, output, count,
                   returned, norm_vars>>

(***************************************************************************)
(* find_lines_for_date: one task of the pool per chunk                     *)
(***************************************************************************)
\* The body of the while loop at offset pos: the results after the line
\* read there.  errors='ignore' decoding raises nothing, so the except
\* clause is never entered.
ScanLine(bytes, pos, target, results) ==
    LET line == Strip(ReadLine(bytes, pos))
    IN  IF line # <<>> /\ extract_date_from_line(line) = target
        THEN Append(results, format_line_for_output(line))
        ELSE results

\* The offset at which the loop starts: seek(start), and one readline()
\* when start > 0.
SkipToLine(bytes, start) ==
    IF start > 0 THEN TellAfterReadLine(bytes, start) ELSE start

\* A plausible slip: a result is stored in the first free slot, that is in
\* completion order (as imap_unordered would), not in the slot of its task.
StoreByCompletion(res, i, lines) ==
    LET free == {j \in DOMAIN res : ~res[j].ready}
        k == CHOOSE j \in free : \A m \in free : j <= m
    IN  [res EXCEPT ![k] = [ready |-> TRUE, lines |-> lines]]

\* pool.starmap returns the results in the order of its argument list.
StoreResult(res, i, lines) ==
    [res EXCEPT ![i] = [ready |-> TRUE, lines |-> lines]]

\* A free worker takes the next task of the queue: open, seek, skip.
ScanOpen(i) ==
    /\ pc = "pool"
    /\ scan[i].pc = "queued"
    /\ \A j \in Tasks : j < i => scan[j].pc # "queued"
    /\ Cardinality(Running) < NumProcesses
    /\ scan' = [scan EXCEPT ![i] =
                   [pc |-> "while",
                    current_pos |-> SkipToLine(file, chunks[i][1]),
                    results |-> <<>>]]
    /\ UNCHANGED <<file, target_date, pc, file_size, first_date, last_date,
                   estimated_pos, chunks, chunk_results, out_of_order,
                   output_exists, output, count, returned, norm_vars>>

\* while current_pos < end: the test succeeds.
ScanTest(i) ==
    /\ pc = "pool"
    /\ scan[i].pc = "while"
    /\ scan[i].current_pos < chunks[i][2]
    /\ scan' = [scan EXCEPT ![i].pc = "body"]
    /\ UNCHANGED <<file, target_date, pc, file_size, first_date, last_date,
                   estimated_pos, chunks, chunk_results, out_of_order,
                   output_exists, output, count, returned, norm_vars>>

\* One pass of the loop body: readline, tell, match, format, append.
ScanBody(i) ==
    /\ pc = "pool"
    /\ scan[i].pc = "body"
    /\ scan' = [scan EXCEPT ![i] =
                   [pc |-> "while",
                    current_pos |-> TellAfterReadLine(file, scan[i].current_pos),
                    results |-> ScanLine(file, scan[i].current_pos,
                                         target_date, scan[i].results)]]
    /\ UNCHANGED <<file, target_date, pc, file_size, first_date, last_date,
                   estimated_pos, chunks, chunk_results, out_of_order,
                   output_exists, output, count, returned, norm_vars>>

\* The test fails: the task returns its results to the pool.
ScanReturn(i) ==
    /\ pc = "pool"
    /\ scan[i].pc = "while"
    /\ scan[i].current_pos >= chunks[i][2]
    /\ scan' = [scan EXCEPT ![i].pc = "returned"]
    /\ chunk_results' = StoreResult(chunk_results, i, scan[i].results)
    /\ out_of_order' =
           (out_of_order \/ \E j \in Tasks : j < i /\ scan[j].pc # "returned")
    /\ UNCHANGED <<file, target_date, pc, file_size, first_date, last_date,
                   estimated_pos, chunks, output_exists, output, count,
                   returned, norm_vars>>

(***************************************************************************)
(* process_file: combine and write the results                             *)
(***************************************************************************)
RECURSIVE Flatten(_)
Flatten(res) ==
    IF res = <<>> THEN <<>> ELSE Head(res).lines \o Flatten(Tail(res))

\* starmap has returned: every task is done.  The output file is created
\* and each line of each result set is written in turn.
WriteOutput ==
    /\ pc = "pool"
    /\ \A i \in Tasks : scan[i].pc = "returned"
    /\ output_exists' = TRUE
    /\ output' = Flatten(chunk_results)
    /\ count' = Len(Flatten(chunk_results))
    /\ returned' = "True"
    /\ pc' = "done"
    /\ UNCHANGED <<file, target_date, file_size, first_date, last_date,
                   estimated_pos, chunks, scan, chunk_results, out_of_order,
                   norm_vars>>

Next ==
    \/ OpenAndMap
    \/ MmapFails
    \/ FindBoundaries
    \/ Estimate
    \/ Plan
    \/ \E i \in Tasks : ScanOpen(i)
    \/ \E i \in Tasks : ScanTest(i)
    \/ \E i \in Tasks : ScanBody(i)
    \/ \E i \in Tasks : ScanReturn(i)
    \/ WriteOutput

Spec == Init /\ [][Next]_vars

(***************************************************************************)
(* Normalizer specification: format_line_for_output applied to a line and  *)
(* to its own result.                                                      *)
(***************************************************************************)
NormInit ==
    /\ norm_line \in Concats(MaxPieces)
    /\ norm_pc = "input"
    /\ norm_once = <<>>
    /\ norm_twice = <<>>
    /\ file = <<>>
    /\ target_date = Date1
    /\ pc = "off"
    /\ file_size = 0
    /\ first_date = <<>>
    /\ last_date = <<>>
    /\ estimated_pos = 0
    /\ chunks = <<>>
    /\ scan = <<>>
    /\ chunk_results = <<>>
    /\ out_of_order = FALSE
    /\ output_exists = FALSE
    /\ output = <<>>
    /\ count = 0
    /\ returned = "running"

NormApply ==
    /\ norm_pc = "input"
    /\ norm_once' = format_line_for_output(norm_line)
    /\ norm_pc' = "once"
    /\ UNCHANGED <<norm_line, norm_twice, pipeline_vars>>

NormApplyAgain ==
    /\ norm_pc = "once"
    /\ norm_twice' = format_line_for_output(norm_once)
    /\ norm_pc' = "twice"
    /\ UNCHANGED <<norm_line, norm_once, pipeline_vars>>

NormNext == NormApply \/ NormApplyAgain

NormSpec == NormInit /\ [][NormNext]_vars

(***************************************************************************)
(* Vocabulary of the properties: the records of the file by offset.        *)
(***************************************************************************)
\* Offsets at which a line of the file starts, and offsets just past a
\* newline.
LineStarts == {o \in 0..(Len(file) - 1) : o = 0 \/ file[o] = NL}
LineEnds == {k \in 1..Len(file) : file[k] = NL}

\* The text of the line that starts at offset o, without its newline.
LineAt(o) ==
    LET ends == {k \in LineEnds : k > o}
        e == CHOOSE k \in ends : \A j \in ends : k <= j
    IN  Strip(SubSeq(file, o + 1, e - 1))

RECURSIVE Ascending(_)
Ascending(S) ==
    IF S = {}
    THEN <<>>
    ELSE LET m == CHOOSE x \in S : \A y \in S : x <= y
         IN  <<m>> \o Ascending(S \ {m})

\* The date-token structural check.
WellFormed(line) == Len(line) >= 10 /\ line[5] = "-" /\ line[8] = "-"

IsTargetLine(o) == extract_date_from_line(LineAt(o)) = target_date

Planned == pc \in {"pool", "done"}
AllReturned == Planned /\ \A i \in Tasks : chunk_results[i].ready
Finished == pc \in {"done", "failed"}

ChunkBytes(c) == {b \in c[1]..(c[2] - 1) : TRUE}

Occurrences(seq, v) == Cardinality({k \in DOMAIN seq : seq[k] = v})

\* A task whose loop test holds at a position where readline() reads
\* nothing: the body leaves current_pos where it is, so the loop never ends.
Stuck(i) ==
    /\ scan[i].pc \in {"while", "body"}
    /\ scan[i].current_pos < chunks[i][2]
    /\ scan[i].current_pos >= Len(file)

(***************************************************************************)
(* C1                                                                      *)
(***************************************************************************)
\* C1: once every chunk has been scanned, the chunk results taken together
\* hold the formatted form of each line whose extracted date is the target
\* date exactly once: none twice, none omitted.
C1_Completeness ==
    AllReturned =>
        LET found == Flatten(chunk_results)
            wanted == {o \in LineStarts : IsTargetLine(o)}
            values == {format_line_for_output(LineAt(o)) : o \in wanted}
                          \cup {found[k] : k \in DOMAIN found}
        IN  \A v \in values :
                Occurrences(found, v) =
                    Cardinality({o \in wanted :
                                     format_line_for_output(LineAt(o)) = v})

(***************************************************************************)
(* C2                                                                      *)
(***************************************************************************)
\* C2: the planned chunks are pairwise non-overlapping and the union of
\* their byte ranges is exactly [0, file_size).
C2_Partition ==
    Planned =>
        /\ \A i, j \in Tasks :
               i # j => ChunkBytes(chunks[i]) \cap ChunkBytes(chunks[j]) = {}
        /\ UNION {ChunkBytes(chunks[i]) : i \in Tasks} = 0..(file_size - 1)

(***************************************************************************)
(* C3                                                                      *)
(***************************************************************************)
FileLines == [k \in 1..Cardinality(LineStarts) |-> LineAt(Ascending(LineStarts)[k])]

\* A chronologically sorted file of well-formed records, one per day, that
\* holds the target date.
ScenarioA ==
    /\ Len(FileLines) >= 1
    /\ \A k \in DOMAIN FileLines :
           /\ WellFormed(FileLines[k])
           /\ ParsesAsDate(extract_date_from_line(FileLines[k]))
    /\ \A k \in 1..(Len(FileLines) - 1) :
           Ordinal(extract_date_from_line(FileLines[k + 1]))
               = Ordinal(extract_date_from_line(FileLines[k])) + 1
    /\ \E k \in DOMAIN FileLines :
           extract_date_from_line(FileLines[k]) = target_date

\* C3: on such a file process_file ends successfully with exactly one
\* output line, the normalized record of the target day, and count = 1.
C3_ScenarioA ==
    (ScenarioA /\ Finished) =>
        /\ pc = "done"
        /\ returned = "True"
        /\ count = 1
        /\ \E k \in DOMAIN FileLines :
               /\ extract_date_from_line(FileLines[k]) = target_date
               /\ output = <<format_line_for_output(FileLines[k])>>

(***************************************************************************)
(* C4                                                                      *)
(***************************************************************************)
\* The boundaries are inferred and the target date lies strictly outside
\* them.
ScenarioC ==
    /\ pc \in {"estimate", "plan", "pool", "done"}
    /\ file_size > 0
    /\ ParsesAsDate(first_date)
    /\ ParsesAsDate(last_date)
    /\ \/ Ordinal(target_date) < Ordinal(first_date)
       \/ Ordinal(target_date) > Ordinal(last_date)

\* C4: with a target date strictly outside the inferred range every chunk
\* scan terminates, so that process_file completes: no scan is ever at its
\* loop with current_pos < end and nothing left to read, where a pass of
\* the loop changes nothing and the loop cannot end.
C4_ScenarioC_Terminates ==
    ScenarioC => \A i \in Tasks : ~Stuck(i)

(***************************************************************************)
(* C5                                                                      *)
(***************************************************************************)
\* C5: every planned chunk (start, end) satisfies 0 <= start < end <= file_size.
C5_ChunkShape ==
    Planned =>
        \A i \in Tasks :
            /\ 0 <= chunks[i][1]
            /\ chunks[i][1] < chunks[i][2]
            /\ chunks[i][2] <= file_size

(***************************************************************************)
(* C6                                                                      *)
(***************************************************************************)
\* C6: on an empty file process_file succeeds: sentinel boundary dates,
\* estimated position 0, the single chunk (0, 0), an output file that exists
\* and is empty, count = 0.
C6_ScenarioB ==
    (file = <<>> /\ Finished) =>
        /\ pc = "done"
        /\ returned = "True"
        /\ first_date = NoDate
        /\ last_date = NoLastDate
        /\ estimated_pos = 0
        /\ chunks = <<<<0, 0>>>>
        /\ output_exists
        /\ output = <<>>
        /\ count = 0

(***************************************************************************)
(* C7                                                                      *)
(***************************************************************************)
\* The lines of the tail window: up to TailLines lines after the line under
\* offset max(0, file_size - TailBytes).
WindowLines ==
    LET pos == Max(0, file_size - TailBytes)
        after == {o \in LineStarts : o > pos}
        offs == Ascending(after)
    IN  [k \in 1..Min(TailLines, Len(offs)) |-> LineAt(offs[k])]

\* C7: max date is "9999-99-99" when no line of the tail window passes the
\* structural check; otherwise it is the token of the last line of the
\* window that does; it is never "0000-00-00".
C7_BoundarySentinel ==
    pc \in {"estimate", "plan", "pool", "done"} =>
        LET real == {k \in DOMAIN WindowLines : WellFormed(WindowLines[k])}
        IN  /\ last_date # NoDate
            /\ real = {} => last_date = NoLastDate
            /\ real # {} =>
                   last_date = extract_date_from_line(
                       WindowLines[CHOOSE k \in real : \A j \in real : j <= k])

(***************************************************************************)
(* C8                                                                      *)
(***************************************************************************)
\* The matches of one chunk, from the file alone: the target lines that
\* start in [first, end), where first is start for start = 0 and otherwise
\* the end of the line that holds byte start; in ascending offset order.
ExpectedChunk(c) ==
    LET ends == {k \in LineEnds : k > c[1]}
        first == IF c[1] = 0
                 THEN 0
                 ELSE IF ends = {}
                      THEN Len(file)
                      ELSE CHOOSE k \in ends : \A j \in ends : k <= j
        offs == Ascending({o \in LineStarts :
                               first <= o /\ o < c[2] /\ IsTargetLine(o)})
    IN  [k \in 1..Len(offs) |-> format_line_for_output(LineAt(offs[k]))]

RECURSIVE ExpectedOutput(_)
ExpectedOutput(cs) ==
    IF cs = <<>> THEN <<>> ELSE ExpectedChunk(Head(cs)) \o ExpectedOutput(Tail(cs))

\* C8: whatever the order in which the workers start and finish, the
\* output is the concatenation of the chunks' matches in the planner's
\* emission order (first chunk, then the coverage chunks by ascending
\* start), each chunk's matches in ascending offset order, unsorted and
\* with duplicates kept, and count is the number of lines written.
C8_OutputOrder ==
    pc = "done" =>
        /\ output = ExpectedOutput(chunks)
        /\ count = Len(output)
        /\ \A i, j \in Tasks : (2 <= i /\ i < j) => chunks[i][1] < chunks[j][1]

\* Reached: a run in which a task finished before an earlier one, two
\* chunks contributed different lines, and the output was written.
C8_Witness ==
    /\ pc = "done"
    /\ out_of_order
    /\ \E i, j \in Tasks :
           /\ i < j
           /\ chunk_results[i].lines # <<>>
           /\ chunk_results[j].lines # <<>>
           /\ chunk_results[i].lines[1] # chunk_results[j].lines[1]

(***************************************************************************)
(* C9                                                                      *)
(***************************************************************************)
\* The file interleaves well-formed records and malformed lines.
ScenarioD ==
    /\ \E o \in LineStarts : WellFormed(LineAt(o))
    /\ \E o \in LineStarts : ~WellFormed(LineAt(o))

\* C9: on such a file no malformed line appears in a chunk result, and the
\* well-formed records of the target date are all returned.
C9_ScenarioD ==
    (ScenarioD /\ AllReturned) =>
        LET found == Flatten(chunk_results)
        IN  /\ \A k \in DOMAIN found :
                   \E o \in LineStarts :
                       /\ WellFormed(LineAt(o))
                       /\ found[k] = format_line_for_output(LineAt(o))
            /\ \A o \in LineStarts :
                   (WellFormed(LineAt(o)) /\ IsTargetLine(o)) =>
                       \E k \in DOMAIN found :
                           found[k] = format_line_for_output(LineAt(o))

(***************************************************************************)
(* C10                                                                     *)
(***************************************************************************)
\* The number of non-overlapping ' - ' separators of s, left to right.
RECURSIVE NumSeps(_)
NumSeps(s) ==
    LET k == Find(s, SepStr, 1)
    IN  IF k = 0 THEN 0 ELSE 1 + NumSeps(SubSeq(s, k + Len(SepStr), Len(s)))

\* C10 as stated: applying the normalizer to its own result changes nothing.
C10_Idempotent == norm_pc = "twice" => norm_twice = norm_once

\* C10 amended: the normalizer leaves its own result unchanged exactly when
\* that result holds no 'T' or fewer than two ' - ' separators.
C10_IdempotentUnlessStructured ==
    norm_pc = "twice" =>
        ((norm_twice = norm_once)
            <=> (~Contains(norm_once, <<"T">>) \/ NumSeps(norm_once) < 2))

\* Reached: a line the normalizer rewrote, whose result still holds two
\* separators and is returned unchanged by the second application.
C10_Witness ==
    /\ norm_pc = "twice"
    /\ norm_once # norm_line
    /\ NumSeps(norm_once) >= 2
    /\ norm_twice = norm_once

====
